---- MODULE Spec2Model ----
(***************************************************************************)
(* Model of scripts/reader.py: a straight-line script that opens a         *)
(* smartcard reader, selects an applet, sets an AES key and IV and sends   *)
(* one ENCRYPT or DECRYPT command, with PKCS#7 padding done on the host.   *)
(*                                                                         *)
(* Bytes are integers 0..255, byte strings and APDUs are sequences of      *)
(* integers, console text is a sequence of one-character strings (hex      *)
(* text, action) or of code points (plaintext).  A Python call that can    *)
(* raise yields a record [exc, val]: exc = "none" on return.               *)
(***************************************************************************)
EXTENDS Integers, Sequences, FiniteSets, TLC

\* ------------------------------------------------------------------ constants
CLA == 128
INS_SET_KEY == 16
INS_SET_IV == 17
INS_ENCRYPT == 32
INS_DECRYPT == 48
APPLET_AID == <<174, 37, 108, 188, 0, 1>>
BLOCK_SIZE == 16
UNPAD_MAX == 16
READER_INDEX == 1
SELECT_HEADER == <<0, 164, 4, 0>>
SW_OK == <<144, 0>>

\* --------------------------------------------------------------------- bounds
MaxReaders == 2
MaxFill == 17
MaxTail == 2
LongLen == 256

\* ------------------------------------------------------------ Python helpers
Return(v) == [exc |-> "none", val |-> v]
Raise(e) == [exc |-> e, val |-> <<>>]

\* [x] * n
ListRepeat(x, n) == [i \in 1..n |-> x]

\* seq * n for a sequence
SeqRepeat(s, n) == [i \in 1..(n * Len(s)) |-> s[((i - 1) % Len(s)) + 1]]

\* data[:stop] with Python's treatment of a negative or oversized stop
SliceTo(data, stop) ==
    LET n == Len(data)
        raw == IF stop < 0 THEN n + stop ELSE stop
        hi == IF raw < 0 THEN 0 ELSE IF raw > n THEN n ELSE raw
    IN SubSeq(data, 1, hi)

\* ------------------------------------------------------------------- padding
pkcs7_pad_noFullBlock(data, block_size) ==
    LET pad_len == (block_size - (Len(data) % block_size)) % block_size
    IN data \o ListRepeat(pad_len, pad_len)

pkcs7_pad_wrongValue(data, block_size) ==
    LET pad_len == block_size - (Len(data) % block_size)
    IN data \o ListRepeat(block_size, pad_len)

pkcs7_pad(data, block_size) ==
    LET pad_len == block_size - (Len(data) % block_size)
    IN data \o ListRepeat(pad_len, pad_len)

pkcs7_unpad_noLowerCheck(data) ==
    IF data = <<>> THEN Raise("IndexError")
    ELSE LET pad_len == data[Len(data)]
         IN IF pad_len > UNPAD_MAX THEN Return(data)
            ELSE Return(SliceTo(data, 0 - pad_len))

pkcs7_unpad_guardEmpty(data) ==
    IF data = <<>> THEN Return(data)
    ELSE LET pad_len == data[Len(data)]
         IN IF pad_len < 1 \/ pad_len > UNPAD_MAX THEN Return(data)
            ELSE Return(SliceTo(data, 0 - pad_len))

pkcs7_unpad(data) ==
    IF data = <<>> THEN Raise("IndexError")
    ELSE LET pad_len == data[Len(data)]
         IN IF pad_len < 1 \/ pad_len > UNPAD_MAX THEN Return(data)
            ELSE Return(SliceTo(data, 0 - pad_len))

\* ---------------------------------------------------------- text conversions
LowerHex == <<"0","1","2","3","4","5","6","7","8","9","a","b","c","d","e","f">>
UpperHex == <<"0","1","2","3","4","5","6","7","8","9","A","B","C","D","E","F">>
UpperLetters == <<"A","B","C","D","E","F","G","H","I","J","K","L","M",
                  "N","O","P","Q","R","S","T","U","V","W","X","Y","Z">>
LowerLetters == <<"a","b","c","d","e","f","g","h","i","j","k","l","m",
                  "n","o","p","q","r","s","t","u","v","w","x","y","z">>

IsSpace(c) == c \in {" ", "\t", "\n", "\r"}
IsHex(c) == \E i \in 1..16 : LowerHex[i] = c \/ UpperHex[i] = c
HexVal(c) == (CHOOSE i \in 1..16 : LowerHex[i] = c \/ UpperHex[i] = c) - 1

\* str.strip(): drop leading and trailing whitespace
RECURSIVE LStrip(_)
LStrip(s) == IF s # <<>> /\ IsSpace(Head(s)) THEN LStrip(Tail(s)) ELSE s
RECURSIVE RStrip(_)
RStrip(s) ==
    IF s # <<>> /\ IsSpace(s[Len(s)]) THEN RStrip(SubSeq(s, 1, Len(s) - 1)) ELSE s
Strip(s) == RStrip(LStrip(s))

\* str.lower() on the ASCII letters
LowerChar(c) ==
    IF \E i \in 1..26 : UpperLetters[i] = c
    THEN LowerLetters[CHOOSE i \in 1..26 : UpperLetters[i] = c]
    ELSE c
Lower(s) == [i \in 1..Len(s) |-> LowerChar(s[i])]

\* bytes.fromhex(): whitespace is skipped between bytes; each byte is two
\* adjacent hex digits; anything else raises ValueError.  digits lists the
\* positions of the non-blank characters in order: the scan succeeds exactly
\* when they are hex digits that pair up as neighbours.
NotBlankAt(s) == SelectSeq([i \in 1..Len(s) |-> i], LAMBDA i : ~IsSpace(s[i]))
FromHex(s) ==
    LET digits == NotBlankAt(s)
        n == Len(digits)
    IN IF /\ n % 2 = 0
          /\ \A k \in 1..n : IsHex(s[digits[k]])
          /\ \A j \in 1..(n \div 2) : digits[2 * j] = digits[2 * j - 1] + 1
       THEN Return([j \in 1..(n \div 2) |->
                       16 * HexVal(s[digits[2 * j - 1]]) + HexVal(s[digits[2 * j]])])
       ELSE Raise("ValueError")

\* str.encode(): UTF-8 of a sequence of code points
Utf8Char(cp) ==
    IF cp < 128 THEN <<cp>>
    ELSE IF cp < 2048 THEN <<192 + (cp \div 64), 128 + (cp % 64)>>
    ELSE IF cp < 65536
         THEN <<224 + (cp \div 4096), 128 + ((cp \div 64) % 64), 128 + (cp % 64)>>
         ELSE <<240 + (cp \div 262144), 128 + ((cp \div 4096) % 64),
                128 + ((cp \div 64) % 64), 128 + (cp % 64)>>
RECURSIVE Encode(_)
Encode(text) ==
    IF text = <<>> THEN <<>>
    ELSE IF Len(text) = 1 THEN Utf8Char(text[1])
    ELSE LET half == Len(text) \div 2
         IN Encode(SubSeq(text, 1, half)) \o Encode(SubSeq(text, half + 1, Len(text)))

\* ------------------------------------------------------------------- framing
Frame_lenByte(ins, payload) == <<CLA, ins, 0, 0, Len(payload) % 256>> \o payload

Frame(ins, payload) == <<CLA, ins, 0, 0, Len(payload)>> \o payload

select_apdu == SELECT_HEADER \o <<Len(APPLET_AID)>> \o APPLET_AID

SelectOk_sw1Only(s) == s[1] = SW_OK[1]

SelectOk(s) == s = SW_OK

CiphertextLenOk_any(ct) == TRUE

CiphertextLenOk(ct) == Len(ct) % 16 = 0

\* seq[i] with Python's zero-based index
PyIndex(seq, i) == IF i < Len(seq) THEN Return(seq[i + 1]) ELSE Raise("IndexError")

\* -------------------------------------------------- console and card inputs
KEY_BYTES == 32
IV_BYTES == 16

KeyInputs ==
    { SeqRepeat(<<"0", "f">>, KEY_BYTES),
      SeqRepeat(<<"a", "B">>, LongLen),
      <<" ", "1", "0", " ", "2", "F", " ">>,
      <<"0", "g">>,
      <<"a", "b", "c">> }

IvInputs ==
    { SeqRepeat(<<"0", "0">>, IV_BYTES),
      <<"0", "1">>,
      <<"z", "z">> }

ActionInputs ==
    { <<" ", "E", "n", "c", "r", "y", "p", "t">>,
      <<"d", "e", "c", "r", "y", "p", "t">>,
      <<"D", "E", "C", "R", "Y", "P", "T", " ">>,
      <<"q", "u", "i", "t">> }

PlaintextInputs ==
    { <<>>,
      <<104, 101, 108, 108, 111>>,
      <<233, 8364>>,
      ListRepeat(97, BLOCK_SIZE),
      ListRepeat(97, LongLen - 17),
      ListRepeat(97, LongLen - 16) }

CiphertextInputs ==
    { <<>>,
      SeqRepeat(<<"3", "c">>, 16),
      <<" ">> \o SeqRepeat(<<"A", "5">>, 32),
      SeqRepeat(<<"3", "c">>, 15),
      SeqRepeat(<<"7", "e">>, LongLen),
      <<"x", "y">> }

StatusWords == { SW_OK, <<144, 1>>, <<106, 130>> }

EncryptBodies == { <<>>, ListRepeat(7, 16) }

DecryptBodies ==
    { <<>>,
      <<5>>,
      ListRepeat(65, 12) \o ListRepeat(4, 4),
      ListRepeat(16, 16),
      ListRepeat(65, 15) \o <<0>>,
      ListRepeat(65, 15) \o <<17>> }

ByteSamples == {0, 1, 2, 16, 17, 255}

TailSamples == UNION { [1..n -> ByteSamples] : n \in 0..MaxTail }

PadInputs ==
    { ListRepeat(f, k) \o t : f \in ByteSamples, k \in 0..MaxFill, t \in TailSamples }

ENCRYPT_TEXT == <<"e", "n", "c", "r", "y", "p", "t">>
DECRYPT_TEXT == <<"d", "e", "c", "r", "y", "p", "t">>

\* --------------------------------------------------------------------- state
\* pc           position in the script (reader.py lines 28-80)
\* all_readers  readers() result, line 29; reader: the one picked, line 33
\* connected    connection.connect() has returned, lines 35-36
\* sent         every apdu handed to connection.transmit, line 14, in order
\* sw_log       the status word the card returned to each of them
\* sw           sw1, sw2 as assigned at lines 40, 65 and 76
\* key, iv      parsed console input, lines 46 and 48
\* action       stripped, lower-cased action text, line 59
\* plaintext    line 62 (encoded input) or line 76 (card response)
\* ciphertext   line 65 (card response) or line 69 (parsed input)
\* unpadded     line 77; printed: which result line was printed (66, 78, 80)
\* error        the uncaught exception that ended the process, or "none"
\* ppc, data, padded, result: one application of pkcs7_pad / pkcs7_unpad to
\* an argument, used by PadSpec only
\* The card transport always returns a response: connection.transmit is an
\* opaque synchronous call whose status word and body are chosen freely.
VARIABLES pc, all_readers, reader, connected, sent, sw_log, sw, key, iv,
          action, plaintext, ciphertext, unpadded, printed, error,
          ppc, data, padded, result

session_vars == <<pc, all_readers, reader, connected, sent, sw_log, sw, key, iv,
                  action, plaintext, ciphertext, unpadded, printed, error>>
pad_vars == <<ppc, data, padded, result>>
vars == <<session_vars, pad_vars>>

SessionInit ==
    /\ pc = "start"
    /\ all_readers = <<>>
    /\ reader = 0
    /\ connected = FALSE
    /\ sent = <<>>
    /\ sw_log = <<>>
    /\ sw = <<>>
    /\ key = <<>>
    /\ iv = <<>>
    /\ action = <<>>
    /\ plaintext = <<>>
    /\ ciphertext = <<>>
    /\ unpadded = <<>>
    /\ printed = "none"
    /\ error = "none"

PadIdle ==
    /\ ppc = "off"
    /\ data = <<>>
    /\ padded = <<>>
    /\ result = Return(<<>>)

Init == SessionInit /\ PadIdle

\* ------------------------------------------------------------ session steps
transmit(apdu, status) ==
    /\ sent' = Append(sent, apdu)
    /\ sw_log' = Append(sw_log, status)

Abort(e) ==
    /\ pc' = "aborted"
    /\ error' = e

ListReaders ==
    /\ pc = "start"
    /\ \E n \in 0..MaxReaders :
        /\ all_readers' = [i \in 1..n |-> i]
        /\ IF n = 0
           THEN Abort("NoReaders")
           ELSE pc' = "pick" /\ UNCHANGED error
    /\ UNCHANGED <<reader, connected, sent, sw_log, sw, key, iv, action,
                   plaintext, ciphertext, unpadded, printed>>
    /\ UNCHANGED pad_vars

PickReader ==
    /\ pc = "pick"
    /\ LET r == PyIndex(all_readers, READER_INDEX)
       IN IF r.exc # "none"
          THEN Abort(r.exc) /\ UNCHANGED <<reader, connected>>
          ELSE /\ reader' = r.val
               /\ connected' = TRUE
               /\ pc' = "select"
               /\ UNCHANGED error
    /\ UNCHANGED <<all_readers, sent, sw_log, sw, key, iv, action,
                   plaintext, ciphertext, unpadded, printed>>
    /\ UNCHANGED pad_vars

Select ==
    /\ pc = "select"
    /\ \E status \in StatusWords :
        /\ transmit(select_apdu, status)
        /\ sw' = status
        /\ IF SelectOk(status)
           THEN pc' = "read_key" /\ UNCHANGED error
           ELSE Abort("SelectFailed")
    /\ UNCHANGED <<all_readers, reader, connected, key, iv, action,
                   plaintext, ciphertext, unpadded, printed>>
    /\ UNCHANGED pad_vars

ReadKey ==
    /\ pc = "read_key"
    /\ \E key_hex \in KeyInputs :
        LET r == FromHex(Strip(key_hex))
        IN IF r.exc # "none"
           THEN Abort(r.exc) /\ UNCHANGED key
           ELSE key' = r.val /\ pc' = "read_iv" /\ UNCHANGED error
    /\ UNCHANGED <<all_readers, reader, connected, sent, sw_log, sw, iv, action,
                   plaintext, ciphertext, unpadded, printed>>
    /\ UNCHANGED pad_vars

ReadIv ==
    /\ pc = "read_iv"
    /\ \E iv_hex \in IvInputs :
        LET r == FromHex(Strip(iv_hex))
        IN IF r.exc # "none"
           THEN Abort(r.exc) /\ UNCHANGED iv
           ELSE iv' = r.val /\ pc' = "set_key" /\ UNCHANGED error
    /\ UNCHANGED <<all_readers, reader, connected, sent, sw_log, sw, key, action,
                   plaintext, ciphertext, unpadded, printed>>
    /\ UNCHANGED pad_vars

SetKeyStep(checked) ==
    /\ pc = "set_key"
    /\ \E status \in StatusWords :
        /\ transmit(Frame(INS_SET_KEY, key), status)
        /\ IF checked /\ status # SW_OK
           THEN Abort("SetKeyFailed")
           ELSE pc' = "set_iv" /\ UNCHANGED error
    /\ UNCHANGED <<all_readers, reader, connected, sw, key, iv, action,
                   plaintext, ciphertext, unpadded, printed>>
    /\ UNCHANGED pad_vars

SetKey_checked == SetKeyStep(TRUE)

SetKey == SetKeyStep(FALSE)

SetIv ==
    /\ pc = "set_iv"
    /\ \E status \in StatusWords :
        transmit(Frame(INS_SET_IV, iv), status)
    /\ pc' = "read_action"
    /\ UNCHANGED <<all_readers, reader, connected, sw, key, iv, action,
                   plaintext, ciphertext, unpadded, printed, error>>
    /\ UNCHANGED pad_vars

ReadAction ==
    /\ pc = "read_action"
    /\ \E text \in ActionInputs :
        /\ action' = Lower(Strip(text))
        /\ IF action' = ENCRYPT_TEXT
           THEN pc' = "encrypt" /\ UNCHANGED printed
           ELSE IF action' = DECRYPT_TEXT
           THEN pc' = "decrypt" /\ UNCHANGED printed
           ELSE pc' = "done" /\ printed' = "invalid"
    /\ UNCHANGED <<all_readers, reader, connected, sent, sw_log, sw, key, iv,
                   plaintext, ciphertext, unpadded, error>>
    /\ UNCHANGED pad_vars

EncryptStep(next) ==
    /\ pc = "encrypt"
    /\ \E text \in PlaintextInputs, status \in StatusWords, body \in EncryptBodies :
        /\ plaintext' = Encode(text)
        /\ transmit(Frame(INS_ENCRYPT, pkcs7_pad(plaintext', BLOCK_SIZE)), status)
        /\ ciphertext' = body
        /\ sw' = status
    /\ printed' = "ciphertext"
    /\ pc' = next
    /\ UNCHANGED <<all_readers, reader, connected, key, iv, action, unpadded, error>>
    /\ UNCHANGED pad_vars

Encrypt_loop == EncryptStep("read_action")

Encrypt == EncryptStep("done")

DecryptInput ==
    /\ pc = "decrypt"
    /\ \E ciphertext_hex \in CiphertextInputs :
        LET r == FromHex(Strip(ciphertext_hex))
        IN IF r.exc # "none"
           THEN Abort(r.exc) /\ UNCHANGED ciphertext
           ELSE /\ ciphertext' = r.val
                /\ IF CiphertextLenOk(r.val)
                   THEN pc' = "reset_iv" /\ UNCHANGED error
                   ELSE Abort("BadCiphertextLength")
    /\ UNCHANGED <<all_readers, reader, connected, sent, sw_log, sw, key, iv, action,
                   plaintext, unpadded, printed>>
    /\ UNCHANGED pad_vars

ResetIv ==
    /\ pc = "reset_iv"
    /\ \E status \in StatusWords :
        transmit(Frame(INS_SET_IV, iv), status)
    /\ pc' = "decrypt_send"
    /\ UNCHANGED <<all_readers, reader, connected, sw, key, iv, action,
                   plaintext, ciphertext, unpadded, printed, error>>
    /\ UNCHANGED pad_vars

DecryptSend ==
    /\ pc = "decrypt_send"
    /\ \E status \in StatusWords, body \in DecryptBodies :
        /\ transmit(Frame(INS_DECRYPT, ciphertext), status)
        /\ plaintext' = body
        /\ sw' = status
        /\ LET r == pkcs7_unpad(body)
           IN IF r.exc # "none"
              THEN Abort(r.exc) /\ UNCHANGED <<unpadded, printed>>
              ELSE /\ unpadded' = r.val
                   /\ printed' = "plaintext"
                   /\ pc' = "done"
                   /\ UNCHANGED error
    /\ UNCHANGED <<all_readers, reader, connected, key, iv, action, ciphertext>>
    /\ UNCHANGED pad_vars

Next ==
    \/ ListReaders
    \/ PickReader
    \/ Select
    \/ ReadKey
    \/ ReadIv
    \/ SetKey
    \/ SetIv
    \/ ReadAction
    \/ Encrypt
    \/ DecryptInput
    \/ ResetIv
    \/ DecryptSend

Spec == Init /\ [][Next]_vars

\* ------------------------------------------------- padding, as pure functions
PadInit ==
    /\ SessionInit
    /\ ppc = "input"
    /\ data \in PadInputs
    /\ padded = <<>>
    /\ result = Return(<<>>)

DoPad ==
    /\ ppc = "input"
    /\ padded' = pkcs7_pad(data, BLOCK_SIZE)
    /\ ppc' = "padded"
    /\ UNCHANGED <<data, result>>
    /\ UNCHANGED session_vars

DoUnpadPadded ==
    /\ ppc = "padded"
    /\ result' = pkcs7_unpad(padded)
    /\ ppc' = "roundtrip"
    /\ UNCHANGED <<data, padded>>
    /\ UNCHANGED session_vars

DoUnpad ==
    /\ ppc = "input"
    /\ result' = pkcs7_unpad(data)
    /\ ppc' = "unpadded"
    /\ UNCHANGED <<data, padded>>
    /\ UNCHANGED session_vars

PadNext ==
    \/ DoPad
    \/ DoUnpadPadded
    \/ DoUnpad

PadSpec == PadInit /\ [][PadNext]_vars

Terminated == pc \in {"done", "aborted"}

\* -------------------------------------------------------- observation helpers
Kind(apdu) ==
    IF apdu = select_apdu THEN "SELECT"
    ELSE IF apdu[2] = INS_SET_KEY THEN "SET_KEY"
    ELSE IF apdu[2] = INS_SET_IV THEN "SET_IV"
    ELSE IF apdu[2] = INS_ENCRYPT THEN "ENCRYPT"
    ELSE IF apdu[2] = INS_DECRYPT THEN "DECRYPT"
    ELSE "OTHER"

Trace(log) == [i \in 1..Len(log) |-> Kind(log[i])]

Payload(apdu) == SubSeq(apdu, 6, Len(apdu))

IsPrefix(p, s) == Len(p) <= Len(s) /\ \A i \in 1..Len(p) : p[i] = s[i]

EncryptOrder == <<"SELECT", "SET_KEY", "SET_IV", "ENCRYPT">>
DecryptOrder == <<"SELECT", "SET_KEY", "SET_IV", "SET_IV", "DECRYPT">>

Rank(p) ==
    CASE p = "start" -> 0
      [] p = "pick" -> 1
      [] p = "select" -> 2
      [] p = "read_key" -> 3
      [] p = "read_iv" -> 4
      [] p = "set_key" -> 5
      [] p = "set_iv" -> 6
      [] p = "read_action" -> 7
      [] p \in {"encrypt", "decrypt"} -> 8
      [] p = "reset_iv" -> 9
      [] p = "decrypt_send" -> 10
      [] OTHER -> 11

DecryptSent == \E i \in 1..Len(sent) : Kind(sent[i]) = "DECRYPT"

\* ----------------------------------------------------------------- properties

\* C1: unpadding the padding of any byte sequence d (empty and block-aligned
\* ones included) returns d itself, without raising.
C1_RoundTrip ==
    ppc = "roundtrip" => (result.exc = "none" /\ result.val = data)

C1_Witness ==
    ppc = "roundtrip" /\ data # <<>> /\ Len(data) % 16 = 0 /\ Len(padded) = Len(data) + 16

\* C2: pkcs7_pad(d) is d followed by exactly n bytes of value n, with
\* n = 16 - (len(d) mod 16) in 1..16, and its length is a multiple of 16.
C2_PadShape ==
    ppc \in {"padded", "roundtrip"} =>
        LET n == 16 - (Len(data) % 16)
        IN /\ n \in 1..16
           /\ Len(padded) = Len(data) + n
           /\ \A i \in 1..Len(data) : padded[i] = data[i]
           /\ \A i \in (Len(data) + 1)..Len(padded) : padded[i] = n
           /\ Len(padded) % 16 = 0

C2_Witness ==
    ppc = "padded" /\ Len(data) = 16 /\ Len(padded) = 32 /\ padded[32] = 16

\* C3 as stated: for non-empty data with last byte n, 1 <= n <= 16 means the
\* result is data minus its trailing n bytes (n bytes shorter); n = 0 or
\* n > 16 means the result is data.
C3_Original ==
    (ppc = "unpadded" /\ data # <<>>) =>
        LET n == data[Len(data)]
        IN /\ result.exc = "none"
           /\ IF 1 <= n /\ n <= 16
              THEN /\ Len(result.val) + n = Len(data)
                   /\ IsPrefix(result.val, data)
              ELSE result.val = data

\* C3 amended: with 1 <= n <= 16 the result is data minus its trailing
\* min(n, len(data)) bytes, so it is empty when n exceeds the length.
C3_Amended ==
    (ppc = "unpadded" /\ data # <<>>) =>
        LET n == data[Len(data)]
            cut == IF n < Len(data) THEN n ELSE Len(data)
        IN /\ result.exc = "none"
           /\ IF 1 <= n /\ n <= 16
              THEN /\ Len(result.val) + cut = Len(data)
                   /\ IsPrefix(result.val, data)
              ELSE result.val = data

C3_Witness ==
    /\ ppc = "unpadded"
    /\ data # <<>>
    /\ data[Len(data)] \in 1..16
    /\ data[Len(data)] > Len(data)
    /\ result.val = <<>>

\* C4 as stated: every transmitted command has a payload length in 0..255
\* and carries that length at index 4.
C4_Original ==
    \A i \in 1..Len(sent) :
        /\ Len(Payload(sent[i])) \in 0..255
        /\ sent[i][5] = Len(Payload(sent[i]))

\* C4 amended: index 4 always equals the payload length, and that length is
\* in 0..255 exactly when the key, IV or ciphertext has at most 255 bytes,
\* or the encoded plaintext at most 239 bytes; SELECT always fits.
C4_Amended ==
    \A i \in 1..Len(sent) :
        LET apdu == sent[i]
            kind == Kind(apdu)
            fits == Len(Payload(apdu)) \in 0..255
        IN /\ apdu[5] = Len(Payload(apdu))
           /\ kind = "SELECT" => fits
           /\ kind = "SET_KEY" => (Payload(apdu) = key /\ (fits <=> Len(key) <= 255))
           /\ kind = "SET_IV" => (Payload(apdu) = iv /\ (fits <=> Len(iv) <= 255))
           /\ kind = "ENCRYPT" => (fits <=> Len(plaintext) <= 239)
           /\ kind = "DECRYPT" =>
                (Payload(apdu) = ciphertext /\ (fits <=> Len(ciphertext) <= 255))

C4_Witness ==
    /\ pc = "done"
    /\ \E i \in 1..Len(sent) : Kind(sent[i]) = "ENCRYPT" /\ sent[i][5] > 255
    /\ \E i \in 1..Len(sent) : Kind(sent[i]) = "SET_KEY" /\ sent[i][5] = KEY_BYTES

\* C5: the commands go out in the order SELECT, SET_KEY, SET_IV, then at most
\* one of ENCRYPT, or SET_IV (same IV) and DECRYPT; every step only appends to
\* what was sent and moves strictly forward in the script.
C5_LinearOrder ==
    [][ /\ \/ IsPrefix(Trace(sent'), EncryptOrder)
           \/ IsPrefix(Trace(sent'), DecryptOrder)
        /\ (Len(sent') >= 4 /\ Kind(sent'[4]) = "SET_IV") => sent'[4] = sent'[3]
        /\ IsPrefix(sent, sent')
        /\ Len(sent') <= Len(sent) + 1
        /\ Rank(pc') > Rank(pc) ]_vars

C5_Witness ==
    pc = "done" /\ Trace(sent) = DecryptOrder /\ sent[4] = sent[3]

\* C6: a SELECT status word other than (0x90, 0x00) aborts the session with
\* nothing but SELECT transmitted; anything after SELECT follows a (0x90, 0x00).
C6_SelectGate ==
    /\ (Len(sw_log) >= 1 /\ sw_log[1] # <<144, 0>>) =>
          (pc = "aborted" /\ error = "SelectFailed" /\ Trace(sent) = <<"SELECT">>)
    /\ Len(sent) >= 2 =>
          (Kind(sent[1]) = "SELECT" /\ Kind(sent[2]) = "SET_KEY" /\ sw_log[1] = <<144, 0>>)

C6_Witness ==
    pc = "aborted" /\ error = "SelectFailed" /\ sw_log = << <<144, 1>> >>

\* C7: an empty reader list aborts before any connection or APDU; a list with
\* at least one reader connects to its first reader and transmits SELECT.
C7_FirstReader ==
    /\ (pc # "start" /\ all_readers = <<>>) =>
          (pc = "aborted" /\ ~connected /\ sent = <<>>)
    /\ (pc \notin {"start", "pick"} /\ all_readers # <<>>) =>
          (connected /\ reader = all_readers[1] /\ (pc # "select" => Len(sent) >= 1))

\* C8: whatever status words SET_KEY and SET_IV get, the session reaches and
\* answers the action prompt, aborts only inside the decrypt branch, and ends
\* with ENCRYPT sent for "encrypt" and DECRYPT sent for a valid "decrypt".
C8_StatusIgnored ==
    /\ (Len(sw_log) >= 2 /\ pc = "aborted") =>
          (action = DECRYPT_TEXT /\ error \in {"ValueError", "BadCiphertextLength", "IndexError"})
    /\ (Len(sw_log) >= 2 /\ Terminated) =>
          (Len(sent) >= 3 /\ Kind(sent[3]) = "SET_IV" /\ action # <<>>)
    /\ (Terminated /\ action = ENCRYPT_TEXT) => Trace(sent) = EncryptOrder
    /\ (Terminated /\ action = DECRYPT_TEXT
          /\ error \notin {"ValueError", "BadCiphertextLength"}) => Trace(sent) = DecryptOrder

C8_Witness ==
    /\ pc = "done"
    /\ printed = "plaintext"
    /\ Trace(sent) = DecryptOrder
    /\ sw_log[2] # SW_OK
    /\ sw_log[3] # SW_OK

\* C9: a ciphertext whose length is not a multiple of 16 aborts the decrypt
\* branch with nothing sent after the first SET_IV; otherwise exactly one
\* SET_IV carrying the session IV goes out right before DECRYPT.
C9_DecryptGate ==
    /\ (action = DECRYPT_TEXT /\ pc # "decrypt" /\ Len(ciphertext) % 16 # 0) =>
          (pc = "aborted" /\ error = "BadCiphertextLength"
             /\ Trace(sent) = <<"SELECT", "SET_KEY", "SET_IV">>)
    /\ error = "BadCiphertextLength" => Len(ciphertext) % 16 # 0
    /\ DecryptSent =>
          /\ Len(ciphertext) % 16 = 0
          /\ Trace(sent) = DecryptOrder
          /\ sent[4] = <<128, 17, 0, 0, Len(iv)>> \o iv
          /\ Payload(sent[5]) = ciphertext

C9_Witness ==
    /\ pc = "aborted"
    /\ error = "BadCiphertextLength"
    /\ Len(ciphertext) = 15
    /\ Len(sent) = 3

\* C10 as stated: once DECRYPT has been transmitted the session finishes
\* normally with a plaintext printed, whatever the card returned.
C10_Original ==
    DecryptSent => (pc = "done" /\ printed = "plaintext" /\ error = "none")

\* C10 amended: once DECRYPT has been transmitted the session finishes
\* normally with a plaintext printed for every status word and every
\* non-empty body; an empty body makes pkcs7_unpad raise IndexError and the
\* session aborts with no plaintext printed.
C10_Amended ==
    DecryptSent =>
        IF plaintext = <<>>
        THEN pc = "aborted" /\ error = "IndexError" /\ printed = "none"
        ELSE /\ pc = "done" /\ printed = "plaintext" /\ error = "none"
             /\ IsPrefix(unpadded, plaintext)

C10_Witness ==
    /\ DecryptSent
    /\ pc = "done"
    /\ sw # SW_OK
    /\ plaintext = <<5>>
    /\ unpadded = <<>>

====
